---- MODULE Spec2Model ----
(***************************************************************************)
(* A model of the Canvas class of artistoo (src/src/Canvas.js): the raw    *)
(* pixel buffer, the colour state and the drawing methods that write the   *)
(* buffer, together with the collaborators they query (grid, cell kinds,   *)
(* border pixels, activity constraint, file system).                       *)
(*                                                                         *)
(* Coordinates are pairs <<x, y>> (p[1] is the source's p[0]).  A pixel of  *)
(* the buffer is addressed by its index off/4 in image_data.data and holds *)
(* the four bytes <<r, g, b, a>>.                                          *)
(***************************************************************************)
EXTENDS Integers, Sequences, FiniteSets, TLC

VARIABLES
    extents,    \* this.extents: <<w, h>> of the grid that is drawn
    zoom,       \* this.zoom
    wrap,       \* this.wrap (first two dimensions)
    torus,      \* grid.torus: are the grid's borders linked
    oob,        \* what a grid lookup outside the extents reads as
    grid,       \* the grid's values, by coordinate: cell ids or field values
    kindOf,     \* C.cellKind, by cell id
    act,        \* A.pxact, by activity constraint and coordinate
    maxAct,     \* A.conf["MAX_ACT"], by activity constraint and cell kind
    registry,   \* C.soft_constraints, in order
    canvas,     \* the backing store of this.ctx, by pixel index
    px,         \* this.px: the data of this.image_data, by pixel index
    acquired,   \* getImageData() was called and putImageData() has not followed
    colst,      \* this.col_r, this.col_g, this.col_b, as the bytes a store keeps of them
    last,       \* the call that ran last: its name, arguments and outcome
    wrote,      \* the pixel indices the last call stored into this.px
    strokes,    \* the border lines the last drawCellBorders drew
    file,       \* what the last writePNG left on disk
    prev,       \* the call that ran before the last one, and the canvas it left
    calls       \* the number of calls of clear, the draw methods and writePNG so far

vars == <<extents, zoom, wrap, torus, oob, grid, kindOf, act, maxAct, registry,
          canvas, px, acquired, colst, last, wrote, strokes, file, prev, calls>>

(***************************************************************************)
(* Bounds of the model.                                                    *)
(***************************************************************************)
GridW == 2
GridH == 2
MaxId == 2
MaxFg == 2

\* The zoom of the demonstration page; the constructor's default is 1.
DemoZoom == 2
Zooms == {1, DemoZoom}

\* A lookup outside a JavaScript array yields undefined, which equals no label.
Undef == -1

Min(a, b) == IF a < b THEN a ELSE b
Max(a, b) == IF a < b THEN b ELSE a
Abs(a) == IF a < 0 THEN -a ELSE a

(***************************************************************************)
(* Colours.  A hex colour is its six digits; col() parses them in pairs.   *)
(***************************************************************************)
Hex000000 == <<0, 0, 0, 0, 0, 0>>
HexFF0000 == <<15, 15, 0, 0, 0, 0>>
Hex00FF00 == <<0, 0, 15, 15, 0, 0>>
Hex0000FF == <<0, 0, 0, 0, 15, 15>>
HexFFFF00 == <<15, 15, 15, 15, 0, 0>>

\* parseInt( hex.substr(i,2), 16 )
parseInt16(hex, i) == 16 * hex[i] + hex[i + 1]

\* col( hex ): the colour state after the call
col(hex) == [r |-> parseInt16(hex, 1), g |-> parseInt16(hex, 3), b |-> parseInt16(hex, 5)]

\* The colour arguments a caller passes: nothing, a hex string, or a function of
\* the cell id.
NoCol == [tag |-> "none", hex |-> Hex000000]
HexCol(h) == [tag |-> "hex", hex |-> h]
FnCol == [tag |-> "fn", hex |-> Hex000000]

\* The function of the cell id a caller passes as colour.
colorFn(id) == IF id = 1 THEN HexFF0000 ELSE IF id = 2 THEN Hex00FF00 ELSE Hex0000FF

(***************************************************************************)
(* The canvas and its raw buffer.                                          *)
(***************************************************************************)
\* constructor: this.width, this.height
widthOf(ext, wr) == IF wr[1] = 0 \/ ext[1] < wr[1] THEN ext[1] ELSE wr[1]
heightOf(ext, wr) == IF wr[2] = 0 \/ ext[2] < wr[2] THEN ext[2] ELSE wr[2]
width == widthOf(extents, wrap)
height == heightOf(extents, wrap)

\* const dy = this.zoom*this.width
dy == zoom * width

\* The pixel indices of the buffer: width*zoom by height*zoom pixels.
PixIdx == 0 .. (width * zoom * height * zoom - 1)

Blank == <<0, 0, 0, 0>>

\* A store into the typed array: an index outside it is ignored.
Store_blend(buf, S, quad) ==
    [i \in DOMAIN buf |-> IF i \in S THEN <<quad[1], quad[2], quad[3], (buf[i][4] + quad[4]) \div 2>> ELSE buf[i]]
Store(buf, S, quad) == [i \in DOMAIN buf |-> IF i \in S THEN quad ELSE buf[i]]

\* pxfir( p ): the pixel index (off/4) of the raw pixel p
pxfir(p) == p[2] * dy + p[1]

\* pxfi( p ): the pixel indices of the zoom x zoom block of cell p
pxfi_rowStride(p) == {(zoom * p[2] + j) * width + zoom * p[1] + i : i \in 0 .. zoom - 1, j \in 0 .. zoom - 1}
pxfi(p) == {(zoom * p[2] + j) * dy + zoom * p[1] + i : i \in 0 .. zoom - 1, j \in 0 .. zoom - 1}

\* pxdrawl, pxdrawr, pxdrawd, pxdrawu: the raw pixels of the line left, right,
\* down or up of cell p
pxdrawl(p) == {pxfir(<<zoom * p[1], i>>) : i \in zoom * p[2] .. zoom * (p[2] + 1) - 1}
pxdrawr_inset(p) == {pxfir(<<zoom * (p[1] + 1) - 1, i>>) : i \in zoom * p[2] .. zoom * (p[2] + 1) - 1}
pxdrawr(p) == {pxfir(<<zoom * (p[1] + 1), i>>) : i \in zoom * p[2] .. zoom * (p[2] + 1) - 1}
pxdrawd(p) == {pxfir(<<i, zoom * (p[2] + 1)>>) : i \in zoom * p[1] .. zoom * (p[1] + 1) - 1}
pxdrawu(p) == {pxfir(<<i, zoom * p[2]>>) : i \in zoom * p[1] .. zoom * (p[1] + 1) - 1}

\* p2pdraw( p ): p reduced modulo the wrap dimensions that are nonzero
p2pdraw(p) == <<IF wrap[1] # 0 THEN p[1] % wrap[1] ELSE p[1],
                IF wrap[2] # 0 THEN p[2] % wrap[2] ELSE p[2]>>

(***************************************************************************)
(* The grid and the model that owns it.                                    *)
(***************************************************************************)
CellsOf(ext) == (0 .. ext[1] - 1) \X (0 .. ext[2] - 1)
Cells == CellsOf(extents)

\* C.pixt( p ): the value at p
pixt(p) == IF p \in Cells THEN grid[p] ELSE oob

Sides == {"l", "r", "d", "u"}
Step(p, s) == CASE s = "l" -> <<p[1] - 1, p[2]>>
                [] s = "r" -> <<p[1] + 1, p[2]>>
                [] s = "d" -> <<p[1], p[2] + 1>>
                [] s = "u" -> <<p[1], p[2] - 1>>

\* The neighbour of p on side s in the grid: on a torus the borders are linked.
Link(p) == IF torus THEN <<p[1] % extents[1], p[2] % extents[2]>> ELSE p
neighNeumann(p) == {Link(Step(p, s)) : s \in Sides} \cap Cells

\* C.cellBorderPixels(): the non-background pixels with a neighbour of another
\* label, each with its label
cellBorderPixels == {<<p, grid[p]>> : p \in {q \in Cells : grid[q] # 0 /\ \E n \in neighNeumann(q) : grid[n] # grid[q]}}

\* C.cellPixels(): the non-background pixels, each with its label
cellPixels == {<<p, grid[p]>> : p \in {q \in Cells : grid[q] # 0}}

Ids == 1 .. MaxId
Kinds == {1, 2}
KindArgs == {-1} \cup Kinds

(***************************************************************************)
(* drawCellBorders( kind, col )                                            *)
(***************************************************************************)
\* The lines drawn for border pixel x = <<p, id>>: p2pdraw reduces p in place, so
\* the labels are read and the lines drawn at the reduced coordinate.
pxdraw(p, s) == CASE s = "l" -> pxdrawl(p)
                  [] s = "r" -> pxdrawr(p)
                  [] s = "d" -> pxdrawd(p)
                  [] s = "u" -> pxdrawu(p)

BorderStrokes(kind) ==
    {[cell |-> x[1], at |-> p2pdraw(x[1]), side |-> s, pix |-> pxdraw(p2pdraw(x[1]), s) \cap PixIdx] :
        x \in {y \in cellBorderPixels : kind < 0 \/ kindOf[y[2]] = kind},
        s \in Sides}

drawnStrokes(kind) ==
    {st \in BorderStrokes(kind) : pixt(st.at) # pixt(Step(st.at, st.side))}

StrokePix(S) == UNION {st.pix : st \in S}

\* The record of a call: its name, its arguments, and how it ended; thrown is
\* the value thrown, in parts (empty when the call returned).
Call(name, kind, c, arg, thrown) ==
    [name |-> name, kind |-> kind, col |-> c, arg |-> arg,
     outcome |-> IF thrown = <<>> THEN "returned" ELSE "threw", thrown |-> thrown]

\* What no drawing method changes: the canvas options and the collaborators.
Fixed == <<extents, zoom, wrap, torus, oob, grid, kindOf, act, maxAct, registry>>

\* The four bytes a raw write stores: the colour state and the alpha byte.
quad(cs, a) == <<cs.r, cs.g, cs.b, a>>

\* The canvas was built on a model (this.C is set, with cells and their kinds)
\* and not on a bare grid, where this.C is undefined and every this.C.f()
\* throws a TypeError.
OnModel == kindOf # <<>>

DrawCellBorders(kind, c) ==
    /\ IF c.tag = "fn"
       THEN \* this.col( col ): a function has no substr
            /\ last' = Call("drawCellBorders", kind, c, 0, <<"TypeError">>)
            /\ wrote' = {}
            /\ strokes' = {}
            /\ UNCHANGED <<canvas, px, acquired, colst>>
       ELSE IF ~OnModel
       THEN \* this.col( col ) and getImageData(), then this.C.cellBorderPixels() throws
            /\ colst' = col(c.hex)
            /\ px' = canvas
            /\ acquired' = TRUE
            /\ wrote' = {}
            /\ strokes' = {}
            /\ last' = Call("drawCellBorders", kind, c, 0, <<"TypeError">>)
            /\ UNCHANGED canvas
       ELSE LET S == drawnStrokes(kind)
                W == StrokePix(S)
                cs == col(c.hex)
            IN /\ colst' = cs
               /\ px' = Store(canvas, W, quad(cs, 255))
               /\ canvas' = px'
               /\ acquired' = FALSE
               /\ wrote' = W
               /\ strokes' = S
               /\ last' = Call("drawCellBorders", kind, c, 0, <<>>)
    /\ UNCHANGED Fixed
    /\ UNCHANGED file

(***************************************************************************)
(* clear( col )                                                            *)
(***************************************************************************)
Clear(c) ==
    /\ c.tag # "fn"
    /\ LET cs == col(c.hex)
       IN canvas' = [i \in PixIdx |-> quad(cs, 255)]
    /\ last' = Call("clear", -1, c, 0, <<>>)
    /\ wrote' = {}
    /\ strokes' = {}
    /\ UNCHANGED <<px, acquired, colst, file>>
    /\ UNCHANGED Fixed

(***************************************************************************)
(* drawOnCellBorders( kind, col )                                          *)
(***************************************************************************)
DrawOnCellBorders(kind, c) ==
    /\ IF c.tag = "fn"
       THEN \* getImageData(), then this.col( col ) throws: a function has no substr
            /\ px' = canvas
            /\ acquired' = TRUE
            /\ wrote' = {}
            /\ last' = Call("drawOnCellBorders", kind, c, 0, <<"TypeError">>)
            /\ UNCHANGED <<canvas, colst>>
       ELSE IF ~OnModel
       THEN \* getImageData() and this.col( col ), then this.C.cellBorderPixels() throws
            /\ colst' = col(c.hex)
            /\ px' = canvas
            /\ acquired' = TRUE
            /\ wrote' = {}
            /\ last' = Call("drawOnCellBorders", kind, c, 0, <<"TypeError">>)
            /\ UNCHANGED canvas
       ELSE LET cs == col(c.hex)
                W == UNION {pxfi(x[1]) : x \in {y \in cellBorderPixels : kind < 0 \/ kindOf[y[2]] = kind}} \cap PixIdx
            IN /\ colst' = cs
               /\ px' = Store(canvas, W, quad(cs, 255))
               /\ canvas' = px'
               /\ acquired' = FALSE
               /\ wrote' = W
               /\ last' = Call("drawOnCellBorders", kind, c, 0, <<>>)
    /\ strokes' = {}
    /\ UNCHANGED Fixed
    /\ UNCHANGED file

(***************************************************************************)
(* drawCells( kind, col )                                                  *)
(***************************************************************************)
\* C.getStat( PixelsByCell )[cid]: the pixels of cell cid; a cell without pixels
\* is no key of the object.
PixelsByCell(cid) == {q \in Cells : grid[q] = cid}

\* The loop over Object.keys( cellpixelsbyid ), in ascending order of the ids,
\* from cell cid on; st holds the buffer, the colour state and the pixels written.
RECURSIVE drawCellsFrom(_, _, _, _)
drawCellsFrom(st, cid, kind, c) ==
    IF cid > MaxId THEN st
    ELSE IF PixelsByCell(cid) # {} /\ (kind < 0 \/ kindOf[cid] = kind)
         THEN LET cs == IF c.tag = "fn" THEN col(colorFn(cid)) ELSE st.cs
                  W == UNION {pxfi(cp) : cp \in PixelsByCell(cid)} \cap PixIdx
              IN drawCellsFrom([buf |-> Store(st.buf, W, quad(cs, 255)), cs |-> cs,
                                wrote |-> st.wrote \cup W], cid + 1, kind, c)
         ELSE drawCellsFrom(st, cid + 1, kind, c)

DrawCells(kind, c) ==
    /\ LET cs0 == IF c.tag = "fn" THEN colst ELSE col(c.hex)
           st == drawCellsFrom([buf |-> canvas, cs |-> cs0, wrote |-> {}], 1, kind, c)
       IN IF ~OnModel
          THEN \* this.col( col ) for a string, then this.C.getStat() throws
               /\ colst' = cs0
               /\ wrote' = {}
               /\ last' = Call("drawCells", kind, c, 0, <<"TypeError">>)
               /\ UNCHANGED <<canvas, px, acquired>>
          ELSE /\ colst' = st.cs
               /\ px' = st.buf
               /\ canvas' = px'
               /\ wrote' = st.wrote
               /\ acquired' = FALSE
               /\ last' = Call("drawCells", kind, c, 0, <<>>)
    /\ strokes' = {}
    /\ UNCHANGED Fixed
    /\ UNCHANGED file

(***************************************************************************)
(* drawPixelSet( pixelarray, col )                                         *)
(***************************************************************************)
DrawPixelSet(pixelarray, c) ==
    /\ LET cs == IF c.tag = "fn" THEN colst ELSE col(c.hex)
           W == UNION {pxfi(q) : q \in pixelarray} \cap PixIdx
       IN /\ colst' = cs
          /\ px' = Store(canvas, W, quad(cs, 255))
          /\ canvas' = px'
          /\ wrote' = W
    /\ acquired' = FALSE
    /\ strokes' = {}
    /\ last' = Call("drawPixelSet", -1, c, pixelarray, <<>>)
    /\ UNCHANGED Fixed
    /\ UNCHANGED file

(***************************************************************************)
(* writePNG( fname )                                                       *)
(***************************************************************************)
\* The paths written to, and what fs.writeFileSync( fname, el.toBuffer() ) can
\* throw: nothing, ENOENT when the parent folder is missing, another error code
\* of the file system, or an error of the encoder, which has no code.
Paths == {"out.png", "missing/out.png"}
Faults(fname) == (IF fname = "missing/out.png" THEN {"ENOENT"} ELSE {""}) \cup {"EACCES", "encoder"}

WritePNG(fname, err) ==
    /\ IF err = ""
       THEN /\ file' = <<fname, canvas>>
            /\ last' = Call("writePNG", -1, NoCol, <<fname, err>>, <<>>)
       ELSE IF err = "ENOENT"
       THEN /\ last' = Call("writePNG", -1, NoCol, <<fname, err>>,
                         <<"Canvas.writePNG: cannot write to file ", fname, ", are you sure the directory exists?">>)
            /\ UNCHANGED file
       ELSE \* the catch block ends without throwing again
            /\ last' = Call("writePNG", -1, NoCol, <<fname, err>>, <<>>)
            /\ UNCHANGED file
    /\ wrote' = {}
    /\ strokes' = {}
    /\ UNCHANGED <<canvas, px, acquired, colst>>
    /\ UNCHANGED Fixed

(***************************************************************************)
(* Construction.                                                           *)
(***************************************************************************)
NoCall == Call("new", -1, NoCol, 0, <<>>)

\* The kinds of the cells: the ids up to t are of kind 1, the others of kind 2.
KindMaps == {[i \in Ids |-> IF i <= t THEN 1 ELSE 2] : t \in Ids}

Constructed ==
    /\ canvas = [i \in PixIdx |-> Blank]
    /\ px = canvas
    /\ acquired = FALSE
    /\ colst = [r |-> 0, g |-> 0, b |-> 0]
    /\ last = NoCall
    /\ wrote = {}
    /\ strokes = {}
    /\ file = <<>>
    /\ prev = [call |-> NoCall, canvas |-> canvas]
    /\ calls = 0

\* The label grids over ext with at most MaxFg non-background pixels.
LabelGrids(ext) ==
    {[p \in CellsOf(ext) |-> IF p \in DOMAIN f THEN f[p] ELSE 0] :
        f \in UNION {[S -> Ids] : S \in {T \in SUBSET CellsOf(ext) : Cardinality(T) <= MaxFg}}}

\* The soft constraints of the model, one object of each class, and those that
\* hold activity values.
Objs == {"Adhesion", "ActivityConstraint", "ActivityMultiBackground"}
Providers == {"ActivityConstraint", "ActivityMultiBackground"}

\* conf.MAX_ACT by cell kind
DemoMaxAct == (0 :> 0 @@ 1 :> 0 @@ 2 :> 80)
MaxActs == {DemoMaxAct, (0 :> 0 @@ 1 :> 40 @@ 2 :> 80)}

NoActivity ==
    /\ act = [o \in Providers |-> [p \in CellsOf(extents) |-> 0]]
    /\ maxAct = [o \in Providers |-> DemoMaxAct]
    /\ registry = <<>>

InitLabels ==
    /\ extents = <<GridW, GridH>>
    /\ zoom \in Zooms
    /\ wrap \in {<<0, 0>>, <<GridW - 1, 0>>}
    /\ torus = FALSE
    /\ oob \in {Undef, 0}
    /\ grid \in LabelGrids(extents)
    /\ kindOf \in KindMaps
    /\ NoActivity
    /\ Constructed

Fresh == last.name = "new"

\* The step is one more call.
Counted == calls' = calls + 1

(***************************************************************************)
(* drawCellBorders on a new canvas.                                        *)
(***************************************************************************)
HexArgs == {NoCol, HexCol(HexFF0000)}

NextBorders ==
    \E kind \in KindArgs, c \in HexArgs :
        /\ Fresh
        /\ DrawCellBorders(kind, c)
        /\ UNCHANGED prev /\ Counted

SpecBorders == InitLabels /\ [][NextBorders]_vars

(***************************************************************************)
(* Claims about drawCellBorders.                                           *)
(***************************************************************************)
Opposite(s) == CASE s = "l" -> "r" [] s = "r" -> "l" [] s = "d" -> "u" [] s = "u" -> "d"

\* The framebuffer line between cell p and its neighbour on side s, as pixel
\* indices: the first pixel column (row) of the right (lower) cell of the two.
LineXY(p, s) ==
    CASE s = "l" -> {<<zoom * p[1], i>> : i \in zoom * p[2] .. zoom * (p[2] + 1) - 1}
      [] s = "r" -> {<<zoom * (p[1] + 1), i>> : i \in zoom * p[2] .. zoom * (p[2] + 1) - 1}
      [] s = "d" -> {<<i, zoom * (p[2] + 1)>> : i \in zoom * p[1] .. zoom * (p[1] + 1) - 1}
      [] s = "u" -> {<<i, zoom * p[2]>> : i \in zoom * p[1] .. zoom * (p[1] + 1) - 1}
LinePix(p, s) ==
    {xy[2] * (zoom * width) + xy[1] :
        xy \in {q \in LineXY(p, s) : q[1] < zoom * width /\ q[2] < zoom * height}}

\* The 4-connected boundaries between differently labelled cells of the grid.
Boundaries == {b \in Cells \X Sides : Step(b[1], b[2]) \in Cells /\ grid[b[1]] # grid[Step(b[1], b[2])]}
BoundaryPix == UNION {LinePix(b[1], b[2]) : b \in Boundaries}

AfterBorders == last.name = "drawCellBorders" /\ last.outcome = "returned"

\* C1: after drawCellBorders with kind -1 on a canvas that does not wrap, the
\* pixels drawn are exactly the lines of the 4-connected boundaries between
\* differently labelled cells of the grid, also for cells in the first or last
\* row or column.
C1_BordersExact ==
    (AfterBorders /\ last.kind = -1 /\ wrap = <<0, 0>>) => wrote = BoundaryPix

\* Two lines drawn from the two sides of one boundary: a is drawn by the cell
\* at a.at on side a.side, b by its neighbour on that side, on the facing side.
Facing(a, b) ==
    /\ a.side \in {"r", "d"}
    /\ Step(a.at, a.side) \in CellsOf(<<width, height>>)
    /\ b.at = Step(a.at, a.side)
    /\ b.side = Opposite(a.side)

\* C2 as stated: when two adjacent cells both draw their common boundary, each
\* draws its own line of framebuffer pixels, distinct from the other's.
C2_DoubleThickness ==
    AfterBorders =>
        \A a, b \in strokes : Facing(a, b) => (a.pix \cap b.pix = {} /\ a.pix # {} /\ b.pix # {})

\* C2, amended: when two adjacent cells both draw their common boundary they
\* draw it onto the same line of zoom framebuffer pixels (single thickness),
\* and every line is drawn from a foreground border pixel, never from a
\* background pixel.
C2_SingleThickness ==
    AfterBorders =>
        /\ \A a, b \in strokes : Facing(a, b) => (a.pix = b.pix /\ Cardinality(a.pix \cup b.pix) = zoom)
        /\ \A a \in strokes : grid[a.cell] # 0

C2_Witness ==
    /\ AfterBorders
    /\ zoom > 1
    /\ \E a, b \in strokes :
          /\ Facing(a, b)
          /\ a.cell = a.at /\ b.cell = b.at
          /\ grid[a.cell] # 0 /\ grid[b.cell] # 0 /\ grid[a.cell] # grid[b.cell]
          /\ a.pix = b.pix
    /\ \E a \in strokes :
          /\ a.cell = a.at
          /\ Step(a.at, a.side) \in Cells
          /\ grid[Step(a.at, a.side)] = 0

(***************************************************************************)
(* Scalar fields: drawField and drawFieldContour.                          *)
(*                                                                         *)
(* A field value is held in tenths (5 is 0.5), a logarithm in millionths.  *)
(***************************************************************************)
FieldVals == {0, 5, 9, 10, 100, 1000}

\* Math.log( .1 + v )
logT(v) == CASE v = 0 -> -2302585
             [] v = 5 -> -510826
             [] v = 9 -> 0
             [] v = 10 -> 95310
             [] v = 100 -> 2312535
             [] v = 20 -> 741937
             [] v = 30 -> 1131402
             [] v = 1000 -> 4606170

\* Math.log( .1 + cc.pixt( q ) ) for cc = this.grid: a bare grid holds the field
\* values, in tenths; the grid of a model holds the cell ids, which are read
\* as the values.
logAt(q) == logT(IF OnModel THEN 10 * grid[q] ELSE grid[q])

SetMax(S) == CHOOSE m \in S : \A x \in S : x <= m
SetMin(S) == CHOOSE m \in S : \A x \in S : m <= x

\* let maxval = 0, raised to every larger Math.log( .1 + cc.pixt([i,j]) )
maxvalOf == SetMax({0} \cup {logAt(q) : q \in Cells})

\* let minval = Math.log(0.1), lowered to every smaller one
minvalOf == SetMin({logT(0)} \cup {logAt(q) : q \in Cells})

\* The byte a Uint8ClampedArray keeps of n/d (d > 0): clamped to 0..255 and
\* rounded to the nearest integer, a tie to the even one.
toUint8Clamp(n, d) ==
    IF n <= 0 THEN 0
    ELSE IF n >= 255 * d THEN 255
    ELSE LET q == n \div d
             r == n % d
         IN IF 2 * r > d THEN q + 1
            ELSE IF 2 * r < d THEN q
            ELSE IF q % 2 = 0 THEN q ELSE q + 1

\* alpha*255 for alpha = t/maxval: with maxval 0 the quotient is -Infinity or
\* NaN, which the array keeps as 0.
heatByte(t, maxval) == IF maxval = 0 THEN 0 ELSE toUint8Clamp(255 * t, maxval)

\* The cell whose write of pixel i comes last in the loops over i and j.
LastCell(S) == CHOOSE q \in S : \A o \in S : o[1] < q[1] \/ (o[1] = q[1] /\ o[2] <= q[2])

DrawField(c) ==
    /\ c.tag # "fn"
    /\ LET cs == col(IF c.tag = "none" THEN Hex0000FF ELSE c.hex)
           maxval == maxvalOf
           W == UNION {pxfi(q) : q \in Cells} \cap PixIdx
       IN /\ colst' = cs
          /\ wrote' = W
          /\ px' = [i \in PixIdx |->
                      IF i \in wrote'
                      THEN quad(cs, heatByte(logAt(LastCell({q \in Cells : i \in pxfi(q)})), maxval))
                      ELSE canvas[i]]
          /\ canvas' = px'
    /\ acquired' = FALSE
    /\ strokes' = {}
    /\ last' = Call("drawField", -1, c, 0, <<>>)
    /\ UNCHANGED Fixed
    /\ UNCHANGED file

\* for( let v = minval; v < maxval; v+= step ) with step = (maxval-minval)/nsteps:
\* the levels are minval + k*step for k < nsteps.  The sum of nsteps steps is a
\* rounded floating point number, and where it falls short of maxval the loop
\* runs once more, at a level just below maxval (level nsteps).  Whether it does
\* depends on the last bit of Math.log, except where every rounding agrees.
ExtraLevel(maxval, nsteps) ==
    IF nsteps \in {1, 2} /\ maxval \in {0, logT(1000)} THEN {FALSE}
    ELSE IF nsteps \in {1, 2} /\ maxval = logT(10) THEN {TRUE}
    ELSE BOOLEAN

\* nsteps * v for level k
levelTimesN(k, nsteps) == nsteps * minvalOf + k * (maxvalOf - minvalOf)

\* Math.abs( v - pixelval ) < 0.05*maxval
nearLevel(k, nsteps, q) ==
    IF k = nsteps THEN 20 * (maxvalOf - logAt(q)) < maxvalOf
    ELSE 20 * Abs(levelTimesN(k, nsteps) - nsteps * logAt(q)) < nsteps * maxvalOf

\* nval < v, and nval >= v
belowLevel_orEqual(k, nsteps, q) ==
    IF k = nsteps THEN logAt(q) <= maxvalOf
    ELSE nsteps * logAt(q) <= levelTimesN(k, nsteps)
belowLevel(k, nsteps, q) ==
    IF k = nsteps THEN logAt(q) < maxvalOf
    ELSE nsteps * logAt(q) < levelTimesN(k, nsteps)
aboveLevel(k, nsteps, q) ==
    IF k = nsteps THEN logAt(q) >= maxvalOf
    ELSE nsteps * logAt(q) >= levelTimesN(k, nsteps)

\* The cell is painted at level k: it is near the level and has a neighbour
\* below and a neighbour at or above it.
contourAt(k, nsteps, q) ==
    /\ nearLevel(k, nsteps, q)
    /\ \E n \in neighNeumann(q) : belowLevel(k, nsteps, n)
    /\ \E n \in neighNeumann(q) : aboveLevel(k, nsteps, n)

\* alpha*255 for alpha = 0.7*((v-minval)/(maxval-minval)) + 0.3 at level k is
\* 255*(3*nsteps + 7*k)/(10*nsteps) in exact arithmetic; it is a tie where that
\* lies halfway between two integers.
contourTie(k, nsteps) ==
    k < nsteps /\ 2 * ((255 * (3 * nsteps + 7 * k)) % (10 * nsteps)) = 10 * nsteps

\* At a tie the floating point product is x.5 itself, which the array rounds to
\* the even integer x + 1, or falls just below it and is kept as x.  At level 0
\* alpha is 0.3 and 0.3*255 is 76.49999999999999; at level 2 of 3 the product
\* falls below 195.5 for every minval and maxval.  At the other ties the last
\* bits of Math.log and of the sums v += step decide.
TieUp(k, nsteps) == IF k = 0 \/ nsteps = 3 THEN {FALSE} ELSE BOOLEAN

\* The levels of a call whose byte may go either way.
OpenTies(nsteps) == {k \in 0 .. nsteps - 1 : contourTie(k, nsteps) /\ TRUE \in TieUp(k, nsteps)}

\* The alpha byte the buffer keeps at level k; up tells where a tie goes.
contourByte(k, nsteps, up) ==
    IF k = nsteps THEN 255
    ELSE LET n == 255 * (3 * nsteps + 7 * k)
             d == 10 * nsteps
         IN IF 2 * (n % d) > d \/ (contourTie(k, nsteps) /\ up) THEN (n \div d) + 1 ELSE n \div d

\* ups holds the levels whose tie goes up in this call.
DrawFieldContour(nsteps, c, extra, ups) ==
    /\ c.tag # "fn"
    /\ extra \in ExtraLevel(maxvalOf, nsteps)
    /\ ups \subseteq OpenTies(nsteps)
    /\ LET cs == col(IF c.tag = "none" THEN HexFFFF00 ELSE c.hex)
           K == 0 .. (IF extra THEN nsteps ELSE nsteps - 1)
           painted == {kq \in K \X Cells : contourAt(kq[1], nsteps, kq[2])}
           W == UNION {pxfi(kq[2]) : kq \in painted} \cap PixIdx
           lastLevel(i) == SetMax({kq[1] : kq \in {x \in painted : i \in pxfi(x[2])}})
       IN /\ colst' = cs
          /\ wrote' = W
          /\ px' = [i \in PixIdx |->
                      IF i \in wrote'
                      THEN quad(cs, contourByte(lastLevel(i), nsteps, lastLevel(i) \in ups))
                      ELSE canvas[i]]
          /\ canvas' = px'
    /\ acquired' = FALSE
    /\ strokes' = {}
    /\ last' = Call("drawFieldContour", -1, c, <<nsteps, extra, ups>>, <<>>)
    /\ UNCHANGED Fixed
    /\ UNCHANGED file

FieldW == 7
FieldH == 1
MaxSteps == 3

\* The fields with one step along x: lo left of column s, hi from column s on.
StepField(ext, s, lo, hi) == [q \in CellsOf(ext) |-> IF q[1] < s THEN lo ELSE hi]

InitField ==
    /\ extents = <<FieldW, FieldH>>
    /\ zoom \in Zooms
    /\ wrap = <<0, 0>>
    /\ torus \in BOOLEAN
    /\ oob = Undef
    /\ \E s \in 0 .. FieldW, lo \in FieldVals, hi \in FieldVals : grid = StepField(extents, s, lo, hi)
    /\ kindOf = <<>>
    /\ NoActivity
    /\ Constructed

NextField ==
    \/ \E c \in HexArgs : Fresh /\ DrawField(c) /\ UNCHANGED prev /\ Counted
    \/ \E nsteps \in 1 .. MaxSteps, extra \in BOOLEAN : \E ups \in SUBSET OpenTies(nsteps) :
          Fresh /\ DrawFieldContour(nsteps, NoCol, extra, ups) /\ UNCHANGED prev /\ Counted

SpecField == InitField /\ [][NextField]_vars

(***************************************************************************)
(* drawActivityValues( kind, A, col ), with the default colour gradient.   *)
(***************************************************************************)
\* for( let c of this.C.soft_constraints ): the first activity constraint
activityAt(reg) == {i \in 1 .. Len(reg) : reg[i] \in Providers}
lastActivity(reg) ==
    IF activityAt(reg) = {} THEN "undefined" ELSE reg[SetMax(activityAt(reg))]
firstActivity(reg) ==
    IF activityAt(reg) = {} THEN "undefined" ELSE reg[SetMin(activityAt(reg))]

\* a > 0 for a = n/d with n >= 0 and d >= 0: n/0 is Infinity for n > 0, and 0/0
\* is NaN, which is not above 0.
positive(n, d) == n > 0

\* 2^e, and 2^s modulo d
RECURSIVE pow2(_)
pow2(e) == IF e = 0 THEN 1 ELSE 2 * pow2(e - 1)
RECURSIVE pow2mod(_, _)
pow2mod(s, d) == IF s = 0 THEN 1 % d ELSE (2 * pow2mod(s - 1, d)) % d

\* a = pxact/MAX_ACT is the floating point number nearest to n/d.  For
\* 0 < n < d it lies in [2^-m, 2^(1-m)) for m = binade(n, d), where the numbers
\* are 2^-(52+m) apart, and a - n/d is roundErr(n, d) / (d * 2^(52+m)).
RECURSIVE binade(_, _)
binade(n, d) == IF n >= d THEN 0 ELSE 1 + binade(2 * n, d)
roundErr(n, d) ==
    LET q == (n * pow2mod(52 + binade(n, d), d)) % d
    IN IF 2 * q < d THEN 0 - q ELSE d - q

\* floor( log2( q + 1/2 ) )
RECURSIVE log2half(_)
log2half(q) == IF q = 0 THEN 0 - 1 ELSE IF q = 1 THEN 0 ELSE 1 + log2half(q \div 2)

\* The byte the buffer keeps of the product c*255 whose exact value is
\* num/d + err/(d * 2^(52+m)).  Away from a tie the error is too small to count.
\* At a tie x.5 the product is rounded to a floating point number first: to x.5
\* itself, kept as the even one of x and x + 1, when the error is at most half
\* the distance to the next number, and else to a number below or above x.5.
productByte(num, d, err, m) ==
    IF num <= 0 THEN 0
    ELSE IF num >= 255 * d THEN 255
    ELSE IF 2 * (num % d) # d THEN toUint8Clamp(num, d)
    ELSE LET x == num \div d
             reach == d * pow2(log2half(x) + m)
             size == IF err < 0 THEN 0 - err ELSE err
             stays == IF x = 0 /\ err < 0 THEN 4 * size <= reach ELSE 2 * size <= reach
         IN IF stays THEN (IF x % 2 = 0 THEN x ELSE x + 1)
            ELSE IF err < 0 THEN x ELSE x + 1

\* col( a ) for a = n/d, as the bytes the buffer keeps of [r, g, b]: 2*a and
\* 2 - 2*a are exact, the product with 255 is rounded.  For d = 0, a is Infinity
\* and (2-2*a)*255 is -Infinity, kept as 0.
gradient(n, d) ==
    IF d = 0 \/ n >= d THEN [r |-> 255, g |-> 0, b |-> 0]
    ELSE IF n = 0 THEN [r |-> 0, g |-> 255, b |-> 0]
    ELSE LET m == binade(n, d)
             err == 510 * roundErr(n, d)
         IN IF 2 * n > d
            THEN [r |-> 255, g |-> productByte(510 * (d - n), d, 0 - err, m), b |-> 0]
            ELSE [r |-> productByte(510 * n, d, err, m), g |-> 255, b |-> 0]

\* The pixels of cellPixels that pass both tests of the loop.
activityCells(kind, A) ==
    {q \in Cells :
        /\ grid[q] # 0
        /\ LET k == kindOf[grid[q]]
           IN /\ (kind < 0 /\ maxAct[A][k] > 0) \/ k = kind
              /\ positive(act[A][q], maxAct[A][k])}

DrawActivityValues(kind, A) ==
    LET used == IF A # "undefined" THEN A ELSE firstActivity(registry)
        arg == [supplied |-> A, used |-> used]
    IN /\ IF ~OnModel /\ A = "undefined"
          THEN \* this.C.soft_constraints throws
               /\ last' = Call("drawActivityValues", kind, NoCol, arg, <<"TypeError">>)
               /\ wrote' = {}
               /\ strokes' = {}
               /\ UNCHANGED <<canvas, px, acquired, colst>>
          ELSE IF ~OnModel
          THEN \* this.col( "FF0000" ) and getImageData(), then this.C.cellPixels() throws
               /\ last' = Call("drawActivityValues", kind, NoCol, arg, <<"TypeError">>)
               /\ colst' = [r |-> 255, g |-> 0, b |-> 0]
               /\ px' = canvas
               /\ acquired' = TRUE
               /\ wrote' = {}
               /\ strokes' = {}
               /\ UNCHANGED canvas
          ELSE IF used = "undefined"
          THEN /\ last' = Call("drawActivityValues", kind, NoCol, arg,
                               <<"Cannot find activity values to draw!">>)
               /\ wrote' = {}
               /\ strokes' = {}
               /\ UNCHANGED <<canvas, px, acquired, colst>>
          ELSE LET drawn == activityCells(kind, used)
                   colAt(q) == gradient(act[used][q], maxAct[used][kindOf[grid[q]]])
               IN /\ wrote' = UNION {pxfi(q) : q \in drawn} \cap PixIdx
                  /\ px' = [i \in PixIdx |->
                              IF i \in wrote'
                              THEN quad(colAt(LastCell({q \in drawn : i \in pxfi(q)})), 255)
                              ELSE canvas[i]]
                  /\ canvas' = px'
                  /\ colst' = IF drawn = {} THEN [r |-> 255, g |-> 0, b |-> 0]
                              ELSE colAt(LastCell(drawn))
                  /\ strokes' = {[cell |-> q, a |-> <<act[used][q], maxAct[used][kindOf[grid[q]]]>>] :
                                   q \in drawn}
                  /\ acquired' = FALSE
                  /\ last' = Call("drawActivityValues", kind, NoCol, arg, <<>>)
       /\ UNCHANGED Fixed
       /\ UNCHANGED file

MaxReg == 2

\* The registries of at most MaxReg constraints, no object twice.
Registries ==
    UNION {{r \in [1 .. n -> Objs] : \A i, j \in 1 .. n : r[i] = r[j] => i = j} : n \in 0 .. MaxReg}

\* Fields of activity values: the same value at every pixel.
ActMaps(ext) == {[q \in CellsOf(ext) |-> a] : a \in {0, 44}}

\* The grid is one row of GridW pixels.
InitActivity ==
    /\ extents = <<GridW, 1>>
    /\ zoom = DemoZoom
    /\ wrap = <<0, 0>>
    /\ torus = FALSE
    /\ oob = Undef
    /\ grid \in LabelGrids(extents)
    /\ kindOf \in KindMaps
    /\ registry \in Registries
    /\ \E m \in MaxActs :
          maxAct = [o \in Providers |-> IF o = "ActivityConstraint" THEN DemoMaxAct ELSE m]
    /\ act \in [Providers -> ActMaps(extents)]
    /\ Constructed

NextActivity ==
    \E kind \in KindArgs, A \in {"undefined"} \cup Providers :
        Fresh /\ DrawActivityValues(kind, A) /\ UNCHANGED prev /\ Counted

SpecActivity == InitActivity /\ [][NextActivity]_vars

(***************************************************************************)
(* The buffer methods: col, getImageData, pxfi, putImageData.              *)
(***************************************************************************)
\* getImageData(): this.px is a fresh copy of the pixels of the canvas
GetImageData ==
    /\ px' = canvas
    /\ acquired' = TRUE
    /\ wrote' = {}
    /\ strokes' = {}
    /\ last' = Call("getImageData", -1, NoCol, 0, <<>>)
    /\ UNCHANGED <<canvas, colst, file>>
    /\ UNCHANGED Fixed

\* putImageData(): the pixels of this.px become those of the canvas
PutImageData ==
    /\ canvas' = px
    /\ acquired' = FALSE
    /\ last' = Call("putImageData", -1, NoCol, 0, <<>>)
    /\ UNCHANGED <<px, colst, wrote, strokes, file>>
    /\ UNCHANGED Fixed

\* col( hex )
Col(hex) ==
    /\ colst' = col(hex)
    /\ UNCHANGED <<canvas, px, acquired, last, wrote, strokes, file>>
    /\ UNCHANGED Fixed

\* The number of pxfi calls since getImageData().
writes == IF last.name = "pxfi" THEN last.arg.n ELSE 0

\* pxfi( p, alpha ) for alpha = a[1]/a[2]; the call is recorded with the colour
\* state and the buffer it found.
Pxfi(p, a) ==
    /\ wrote' = pxfi(p) \cap PixIdx
    /\ px' = Store(px, wrote', quad(colst, toUint8Clamp(255 * a[1], a[2])))
    /\ last' = Call("pxfi", -1, NoCol,
                    [p |-> p, alpha |-> a, cs |-> colst, before |-> px, n |-> writes + 1], <<>>)
    /\ UNCHANGED <<canvas, acquired, colst, strokes, file>>
    /\ UNCHANGED Fixed

MaxWrites == 2
Alphas == {<<1, 1>>, <<1, 2>>}

InitPixels ==
    /\ extents = <<GridW, GridH>>
    /\ zoom \in Zooms
    /\ wrap \in {<<0, 0>>, <<GridW - 1, 0>>}
    /\ torus = FALSE
    /\ oob = Undef
    /\ grid = [q \in CellsOf(extents) |-> 0]
    /\ kindOf = [i \in Ids |-> 1]
    /\ NoActivity
    /\ Constructed

NextPixels ==
    \/ Fresh /\ GetImageData /\ UNCHANGED <<prev, calls>>
    \/ \E hex \in {HexFF0000, Hex0000FF} :
          last.name \in {"getImageData", "pxfi"} /\ Col(hex) /\ UNCHANGED <<prev, calls>>
    \/ \E p \in Cells, a \in Alphas :
          /\ last.name \in {"getImageData", "pxfi"}
          /\ writes < MaxWrites
          /\ Pxfi(p, a)
          /\ UNCHANGED <<prev, calls>>
    \/ last.name = "pxfi" /\ PutImageData /\ UNCHANGED <<prev, calls>>

SpecPixels == InitPixels /\ [][NextPixels]_vars

(***************************************************************************)
(* The methods of a canvas, called in any order: the canvas has no state    *)
(* that refuses a call, so every method may follow every other.            *)
(***************************************************************************)
\* At most MaxCalls calls are made on a canvas.
MaxCalls == 3

\* The arguments of the calls: every kind or kind 1, in a colour or with a
\* colour function; one pixel or all of them.
DrawArgs == {-1, 1} \X {HexCol(HexFF0000), FnCol}
PixelArrays == {{<<GridW - 1, 0>>}, Cells}

\* Label grids: cell 1 in the first or the last column, from the top down to
\* row t, next to the background or to cell 2.
DemoGrids(ext) ==
    {[q \in CellsOf(ext) |-> IF q[1] = x /\ q[2] < t THEN 1 ELSE b] :
        x \in {0, ext[1] - 1}, t \in 1 .. ext[2], b \in {0, 2}}

\* A model with adhesion and an activity constraint, as the demo builds it.
DemoActivity ==
    /\ registry = <<"Adhesion", "ActivityConstraint">>
    /\ maxAct = [o \in Providers |-> DemoMaxAct]
    /\ act = [o \in Providers |-> [q \in CellsOf(extents) |-> 44]]

InitCalls ==
    /\ extents = <<GridW, GridH>>
    /\ zoom \in Zooms
    /\ wrap \in {<<0, 0>>, <<GridW - 1, 0>>}
    /\ torus = FALSE
    /\ oob = Undef
    /\ grid \in DemoGrids(extents)
    /\ kindOf = [i \in Ids |-> Min(i, 2)]
    /\ DemoActivity
    /\ Constructed

Next ==
    \/ calls < MaxCalls /\ Clear(HexCol(Hex0000FF)) /\ Counted /\ UNCHANGED prev
    \/ \E a \in DrawArgs : calls < MaxCalls /\ DrawCells(a[1], a[2]) /\ Counted /\ UNCHANGED prev
    \/ \E a \in DrawArgs : calls < MaxCalls /\ DrawOnCellBorders(a[1], a[2]) /\ Counted /\ UNCHANGED prev
    \/ \E a \in DrawArgs : calls < MaxCalls /\ DrawCellBorders(a[1], a[2]) /\ Counted /\ UNCHANGED prev
    \/ \E pa \in PixelArrays : calls < MaxCalls /\ DrawPixelSet(pa, HexCol(HexFF0000)) /\ Counted /\ UNCHANGED prev
    \/ \E kind \in {-1, 1} :
          calls < MaxCalls /\ DrawActivityValues(kind, "undefined") /\ Counted /\ UNCHANGED prev
    \/ \E fname \in Paths : \E err \in Faults(fname) :
          calls < MaxCalls /\ WritePNG(fname, err) /\ Counted /\ UNCHANGED prev
    \/ calls < MaxCalls /\ DrawField(NoCol) /\ Counted /\ UNCHANGED prev
    \/ \E extra \in BOOLEAN :
          calls < MaxCalls /\ DrawFieldContour(MaxSteps, NoCol, extra, {}) /\ Counted /\ UNCHANGED prev

Spec == InitCalls /\ [][Next]_vars

(***************************************************************************)
(* The render calls, in any order, each step keeping the call before it.   *)
(***************************************************************************)
\* The step keeps the call that ran before it and the canvas that call left.
Remember == prev' = [call |-> last, canvas |-> canvas]

InitRepeat ==
    /\ zoom = DemoZoom
    /\ oob = Undef
    /\ \/ /\ extents = <<GridW, GridH>>
          /\ wrap \in {<<0, 0>>, <<GridW - 1, 0>>}
          /\ torus = FALSE
          /\ grid \in DemoGrids(extents)
          /\ kindOf = [i \in Ids |-> Min(i, 2)]
          /\ DemoActivity
       \/ /\ extents = <<FieldW, FieldH>>
          /\ wrap = <<0, 0>>
          /\ torus \in BOOLEAN
          /\ \E lo \in {0, 1000}, hi \in {0, 10} : grid = StepField(extents, 5, lo, hi)
          /\ kindOf = <<>>
          /\ NoActivity
    /\ Constructed

NextRepeat ==
    \/ calls < MaxCalls /\ Clear(HexCol(Hex0000FF)) /\ Counted /\ Remember
    \/ \E a \in DrawArgs : calls < MaxCalls /\ DrawCells(a[1], a[2]) /\ Counted /\ Remember
    \/ \E a \in DrawArgs : calls < MaxCalls /\ DrawOnCellBorders(a[1], a[2]) /\ Counted /\ Remember
    \/ \E a \in DrawArgs : calls < MaxCalls /\ DrawCellBorders(a[1], a[2]) /\ Counted /\ Remember
    \/ \E kind \in {-1, 1}, A \in {"undefined", "ActivityConstraint"} :
          calls < MaxCalls /\ DrawActivityValues(kind, A) /\ Counted /\ Remember
    \/ \E c \in HexArgs :
          calls < MaxCalls /\ DrawField(c) /\ Counted /\ Remember
    \/ \E nsteps \in {1, MaxSteps}, extra \in BOOLEAN : \E ups \in SUBSET OpenTies(nsteps) :
          calls < MaxCalls /\ DrawFieldContour(nsteps, NoCol, extra, ups) /\ Counted /\ Remember

SpecRepeat == InitRepeat /\ [][NextRepeat]_vars

(***************************************************************************)
(* Claims about the drawing methods of a label grid and about writePNG.    *)
(***************************************************************************)
\* The zoom x zoom block of framebuffer pixels that shows display cell p.
BlockPix(p) ==
    {Y * (zoom * width) + X :
        X \in {i \in zoom * p[1] .. zoom * (p[1] + 1) - 1 : i < zoom * width},
        Y \in {j \in zoom * p[2] .. zoom * (p[2] + 1) - 1 : j < zoom * height}}

Matches(kind, id) == kind < 0 \/ kindOf[id] = kind

\* The grid coordinates the last call was to draw.
Submitted ==
    CASE last.name = "drawCells" -> {q \in Cells : grid[q] # 0 /\ Matches(last.kind, grid[q])}
      [] last.name \in {"drawOnCellBorders", "drawCellBorders"} ->
            {x[1] : x \in {y \in cellBorderPixels : Matches(last.kind, y[2])}}
      [] last.name = "drawPixelSet" -> last.arg
      [] OTHER -> {}

Returned(name) == last.name = name /\ last.outcome = "returned"

\* C3: where a wrap dimension is nonzero, every draw operation writes a
\* coordinate at its wrap-reduced place in the buffer, and drawCellBorders
\* still compares the labels at the original coordinate.
C3_WrapReduced ==
    /\ (Returned("drawCells") \/ Returned("drawOnCellBorders") \/ Returned("drawPixelSet"))
          => wrote = UNION {BlockPix(p2pdraw(q)) : q \in Submitted}
    /\ Returned("drawCellBorders")
          => {<<st.cell, st.at, st.side>> : st \in strokes}
               = UNION {{<<q, p2pdraw(q), sd>> : sd \in {t \in Sides : pixt(q) # pixt(Step(q, t))}} :
                           q \in Submitted}

\* C6: writePNG throws a message with the path when the parent folder is
\* missing, lets every other failure of the encoder or the file system reach
\* the caller as it was thrown, and returns only when the file was written.
C6_WriteFailures ==
    last.name = "writePNG" =>
        LET fname == last.arg[1]
            err == last.arg[2]
        IN /\ err = "ENOENT" => (last.outcome = "threw" /\ fname \in {last.thrown[i] : i \in DOMAIN last.thrown})
           /\ err \notin {"", "ENOENT"} => (last.outcome = "threw" /\ last.thrown = <<err>>)
           /\ last.outcome = "returned" => file = <<fname, canvas>>

\* C8: drawOnCellBorders with a colour function returns and leaves every border
\* pixel whose cell matches the kind in the colour the function gives for the
\* cell id, and every other pixel as it was.
C8_FnBorderPixels ==
    (last.name = "drawOnCellBorders" /\ last.col.tag = "fn" /\ wrap = <<0, 0>>) =>
        /\ last.outcome = "returned"
        /\ \A q \in Submitted : \A i \in BlockPix(q) : canvas[i] = quad(col(colorFn(grid[q])), 255)
        /\ wrote = UNION {BlockPix(q) : q \in Submitted}

\* C9: drawCells with a colour function writes every pixel of every cell that
\* matches the kind in the colour the function gives for the cell id, at alpha
\* 1 (where the coordinate is shown: its place reduced by this.wrap), and no
\* other pixel.
C9_FillByColorFn ==
    (last.name = "drawCells" /\ last.col.tag = "fn") =>
        /\ last.outcome = "returned"
        /\ \A q \in Submitted :
              (\A o \in Submitted : p2pdraw(o) = p2pdraw(q) => grid[o] = grid[q])
                 => \A i \in BlockPix(p2pdraw(q)) : canvas[i] = quad(col(colorFn(grid[q])), 255)
        /\ wrote = UNION {BlockPix(p2pdraw(q)) : q \in Submitted}

(***************************************************************************)
(* Claims about the scalar field renderers.                                *)
(***************************************************************************)
AfterContour == last.name = "drawFieldContour" /\ last.outcome = "returned"
AfterField == last.name = "drawField" /\ last.outcome = "returned"

\* The field that is 0 left of column 5 and 100 from column 5 on.
StepAt5 == StepField(extents, 5, 0, 1000)

ColumnPix(x) == UNION {BlockPix(<<x, y>>) : y \in 0 .. (extents[2] - 1)}

\* C4, as the specification states it: over the step field at column 5 and with
\* nsteps = 1, drawFieldContour marks the pixels of columns 4 and 5 and no other.
C4_StepFieldMarks ==
    (AfterContour /\ last.arg[1] = 1 /\ grid = StepAt5)
        => wrote = ColumnPix(4) \cup ColumnPix(5)

\* C4, amended: over a field that steps from 0 to 100 and with nsteps = 1,
\* drawFieldContour marks no pixel at all and leaves the framebuffer as it was:
\* the only level is minval, and no cell lies strictly below it.
C4_NoMarks ==
    (AfterContour /\ last.arg[1] = 1
        /\ \E s \in 1 .. (extents[1] - 1) : grid = StepField(extents, s, 0, 1000))
        => (wrote = {} /\ \A i \in PixIdx : px[i] = Blank)

C4_Witness ==
    AfterContour /\ last.arg[1] = 1 /\ grid = StepAt5 /\ zoom = DemoZoom /\ torus

\* The maximum of log(0.1 + v) over the cells of the grid.
trueMax == SetMax({logAt(q) : q \in Cells})

\* C5: after drawField every pixel of a cell that holds the maximal value of
\* the grid has alpha 255, that is alpha 1, whatever the values of the grid.
C5_MaxCellOpaque ==
    AfterField =>
        \A q \in Cells : logAt(q) = trueMax => \A i \in BlockPix(q) : px[i][4] = 255

(***************************************************************************)
(* Claims about drawActivityValues.                                        *)
(***************************************************************************)
AfterActivity == last.name = "drawActivityValues"

\* C7: drawActivityValues calls the colour function and writes a pixel only for
\* a cell whose kind has a positive MAX_ACT and whose activity is positive,
\* whether kind is negative or names a kind.
C7_PositiveMaxAct ==
    (AfterActivity /\ last.outcome = "returned") =>
        /\ \A st \in strokes : st.a[1] > 0 /\ st.a[2] > 0
        /\ \A q \in Cells :
              (grid[q] # 0 /\ maxAct[last.arg.used][kindOf[grid[q]]] <= 0)
                  => BlockPix(q) \cap wrote = {}

\* The picture drawActivityValues leaves when it reads provider o.
ActivityPicture(kind, o) ==
    [i \in PixIdx |->
        IF \E q \in Cells : i \in BlockPix(q) /\ grid[q] # 0
                /\ act[o][q] > 0
                /\ ((kind < 0 /\ maxAct[o][kindOf[grid[q]]] > 0) \/ kindOf[grid[q]] = kind)
        THEN LET q == CHOOSE q \in Cells : i \in BlockPix(q)
             IN quad(gradient(act[o][q], maxAct[o][kindOf[grid[q]]]), 255)
        ELSE Blank]

\* C10: drawActivityValues throws "Cannot find activity values to draw!" exactly
\* when no provider is supplied and the registry holds no activity constraint;
\* otherwise it draws the values of the supplied provider, and with none
\* supplied those of the first activity constraint of the registry.
C10_ProviderLookup ==
    AfterActivity =>
        LET A == last.arg.supplied
            found == {i \in 1 .. Len(registry) : registry[i] \in Providers}
            first == registry[CHOOSE i \in found : \A j \in found : i <= j]
        IN /\ (last.outcome = "threw") <=> (A = "undefined" /\ found = {})
           /\ last.outcome = "threw" =>
                 /\ last.thrown = <<"Cannot find activity values to draw!">>
                 /\ px = [i \in PixIdx |-> Blank]
           /\ (last.outcome = "returned" /\ A # "undefined") =>
                 px = ActivityPicture(last.kind, A)
           /\ (last.outcome = "returned" /\ A = "undefined") =>
                 px = ActivityPicture(last.kind, first)

\* Two activity constraints with different values are registered, neither is
\* supplied, and the values of the first one put colour on the canvas.
C10_Witness ==
    /\ AfterActivity
    /\ last.outcome = "returned"
    /\ last.arg.supplied = "undefined"
    /\ Cardinality({i \in 1 .. Len(registry) : registry[i] \in Providers}) = 2
    /\ ActivityPicture(last.kind, registry[1]) # ActivityPicture(last.kind, registry[2])
    /\ wrote # {}

(***************************************************************************)
(* Claims about the acquisition of the buffer.                             *)
(***************************************************************************)
DrawCalls == {"drawCells", "drawOnCellBorders", "drawCellBorders", "drawPixelSet"}

\* C11: when a drawing method has returned or thrown, every getImageData() it
\* made has been followed by its putImageData(): the buffer is not left
\* acquired.
C11_AcquireCommitted == last.name \in DrawCalls => acquired = FALSE

(***************************************************************************)
(* Claims about pxfi.                                                      *)
(***************************************************************************)
AfterPxfi == last.name = "pxfi" /\ last.arg.p \in CellsOf(<<width, height>>)

\* C12: pxfi at a coordinate within the canvas, with alpha a, overwrites
\* exactly the zoom by zoom block of the coordinate with the colour state and
\* the byte kept of a*255, whatever the block held before, and leaves every
\* other pixel of the buffer, and the canvas, as they were.
C12_BlockOverwrite ==
    AfterPxfi =>
        /\ px = [i \in PixIdx |->
                   IF i \in BlockPix(last.arg.p)
                   THEN <<last.arg.cs.r, last.arg.cs.g, last.arg.cs.b,
                          toUint8Clamp(255 * last.arg.alpha[1], last.arg.alpha[2])>>
                   ELSE last.arg.before[i]]
        /\ Cardinality(BlockPix(last.arg.p)) = zoom * zoom
        /\ canvas = [i \in PixIdx |-> Blank]

\* A half transparent write over a block that holds another colour.
C12_Witness ==
    /\ AfterPxfi
    /\ zoom = DemoZoom
    /\ last.arg.alpha = <<1, 2>>
    /\ last.arg.n = MaxWrites
    /\ \A i \in BlockPix(last.arg.p) :
          last.arg.before[i] # Blank /\ last.arg.before[i][1] # last.arg.cs.r

(***************************************************************************)
(* Claims about repeated render calls.                                     *)
(***************************************************************************)
RenderCalls == {"drawField", "drawFieldContour", "drawCellBorders", "drawOnCellBorders",
                "drawCells", "drawActivityValues"}

\* The last call is a render call that repeats the call before it.
Repeated ==
    /\ last.name \in RenderCalls
    /\ prev.call.name = last.name
    /\ prev.call.kind = last.kind
    /\ prev.call.col = last.col
    /\ prev.call.arg = last.arg

\* C13: a render call made a second time with the same arguments, right after
\* the first, ends as the first did and leaves the canvas as the first left
\* it, whatever the canvas and the colour state held before.
C13_Idempotent ==
    Repeated => (canvas = prev.canvas /\ last.outcome = prev.call.outcome)

\* drawActivityValues made twice after two other calls: the cells of kind 1
\* were drawn in red, and the activity of the cells of kind 2 is drawn over the
\* canvas in a colour between red and yellow.
C13_Witness ==
    /\ Repeated
    /\ last.name = "drawActivityValues"
    /\ calls = MaxCalls
    /\ \E st \in strokes : gradient(st.a[1], st.a[2]).g \notin {0, 255}
    /\ \E i \in PixIdx \ wrote : canvas[i] = <<255, 0, 0, 255>>
====
